---------------------------- MODULE Spec2Model ----------------------------
(***************************************************************************)
(* A model of the gamification core of the sales-journey application:     *)
(* the shop (shop.py), the daily buff and the streak (gamification.py)    *)
(* and the AmoCRM webhook rewards (webhooks.py), over the tables of       *)
(* models.py.                                                             *)
(*                                                                         *)
(* Tables are sets or sequences of rows.  A request works on a session:   *)
(* a copy of the tables that db.session.commit() writes back and that a   *)
(* rollback, or the end of a request without commit, throws away.         *)
(* Dates are day numbers; a nullable column holds <<>> or <<value>>.      *)
(***************************************************************************)
EXTENDS Integers, Sequences, FiniteSets, TLC

VARIABLES
    today,          \* date.today()
    profiles,       \* gamification_profiles rows
    buffs,          \* daily_buffs rows, in insertion order
    transactions,   \* transactions rows, in insertion order
    inventory,      \* user_inventory rows, in insertion order
    feed_events,    \* feed_events rows, in insertion order
    challenge_progress, \* challenge_progress rows
    user_maps,      \* amocrm_user_maps rows
    companies,      \* companies rows
    user_company,   \* users.company_id of each user
    challenges,     \* challenges rows
    shop_items,     \* shop_items rows, by id
    connections,    \* amocrm_connections rows
    posts,          \* posts rows
    likes,          \* likes rows, in insertion order
    clock,          \* int(time.time()), in seconds
    foreign_keys,   \* whether the database enforces foreign keys
    procs,          \* per worker: the request it is in the middle of
    amo,            \* AmoCRM's side: per company, the refresh token it accepts
    streak_days,    \* history: per user, the days on which check_streak ran on the stored profile
    hook,           \* the webhook request being handled, if any
    last            \* the last request or webhook event handled, with its answer

\* The tables of the companies and of the feed.
site == <<companies, user_company, challenges, shop_items, connections, posts, likes,
          clock, foreign_keys, procs, amo>>

vars == <<today, profiles, buffs, transactions, inventory, feed_events,
          challenge_progress, user_maps, streak_days, hook, last, site>>

----------------------------------------------------------------------------
(* Bounds of the model *)

MaxDay == 2
MaxTxn == 1
MaxShopTxn == 3
MaxTicks == 2
MaxPosts == 1
MaxPages == 2

(* Program constants *)

WON_STATUS_ID == 142
MIN_CALL_DURATION == 10

----------------------------------------------------------------------------
(* The world the requests come from *)

Users == {1, 2}

\* The users whose browser sessions send the shop and buff requests.
LoggedIn == {1}

\* users.company_id of a user: None, or Some company id
UserCompany(u) == user_company[u]

BuffType == {"SHARK", "WOODPECKER", "ZEN"}

None == <<>>
Some(x) == <<x>>

----------------------------------------------------------------------------
(* gamification_profiles *)

NewProfile(u) ==
    [user_id |-> u, coins |-> 0, xp |-> 0, current_streak |-> 0,
     last_activity_date |-> None]

\* A profile that has been active on the three days before day 1.
VeteranProfile(u) ==
    [user_id |-> u, coins |-> 5, xp |-> 0, current_streak |-> 3,
     last_activity_date |-> Some(0)]

ProfileRows(ps, u) == {p \in ps : p.user_id = u}

ProfileOf(ps, u) == CHOOSE p \in ProfileRows(ps, u) : TRUE

PutProfile(ps, p) == (ps \ ProfileRows(ps, p.user_id)) \cup {p}

Coins(ps, u) == IF ProfileRows(ps, u) = {} THEN 0 ELSE ProfileOf(ps, u).coins

----------------------------------------------------------------------------
(* The session of a request *)

Tables ==
    [profiles |-> profiles, buffs |-> buffs, transactions |-> transactions,
     inventory |-> inventory, feed_events |-> feed_events,
     challenge_progress |-> challenge_progress, streak_days |-> streak_days]

\* created: users whose profile row this session added while their
\*          User.gamification_profile attribute stays loaded as None;
\* failed:  a flush failed, the session refuses further work until rollback.
BeginSession ==
    [profiles |-> profiles, buffs |-> buffs, transactions |-> transactions,
     inventory |-> inventory, feed_events |-> feed_events,
     challenge_progress |-> challenge_progress, streak_days |-> streak_days,
     created |-> {}, failed |-> FALSE]

TablesOf(s) ==
    [profiles |-> s.profiles, buffs |-> s.buffs, transactions |-> s.transactions,
     inventory |-> s.inventory, feed_events |-> s.feed_events,
     challenge_progress |-> s.challenge_progress, streak_days |-> s.streak_days]

Commit(s) ==
    /\ profiles' = s.profiles
    /\ buffs' = s.buffs
    /\ transactions' = s.transactions
    /\ inventory' = s.inventory
    /\ feed_events' = s.feed_events
    /\ challenge_progress' = s.challenge_progress
    /\ streak_days' = s.streak_days

Rollback ==
    UNCHANGED <<profiles, buffs, transactions, inventory, feed_events,
                challenge_progress, streak_days>>

----------------------------------------------------------------------------
(* gamification.py *)

\* get_or_create_profile: returns the profile the User object shows, or adds a
\* new one.  The new row is tied to the user by user_id only, so the User
\* object keeps showing no profile for the rest of the session: a second call
\* adds a second row for the same user (dup), which the unique user_id
\* refuses at the next flush.
get_or_create_profile(s, u) ==
    IF ProfileRows(s.profiles, u) # {} /\ u \notin s.created
    THEN [s |-> s, profile |-> ProfileOf(s.profiles, u), dup |-> FALSE]
    ELSE IF u \in s.created
    THEN [s |-> s, profile |-> NewProfile(u), dup |-> TRUE]
    ELSE [s |-> [s EXCEPT !.profiles = @ \cup {NewProfile(u)},
                          !.created = @ \cup {u}],
          profile |-> NewProfile(u), dup |-> FALSE]

\* check_streak without its return on a day already counted.
check_streak_again(profile, day) ==
    IF profile.last_activity_date = Some(day - 1)
    THEN [profile EXCEPT !.current_streak = @ + 1,
                         !.last_activity_date = Some(day)]
    ELSE [profile EXCEPT !.current_streak = 1,
                         !.last_activity_date = Some(day)]

check_streak(profile, day) ==
    IF profile.last_activity_date = Some(day)
    THEN profile
    ELSE IF profile.last_activity_date = Some(day - 1)
    THEN [profile EXCEPT !.current_streak = @ + 1,
                         !.last_activity_date = Some(day)]
    ELSE [profile EXCEPT !.current_streak = 1,
                         !.last_activity_date = Some(day)]

\* check_streak on the profile g found, written to the session when the
\* profile is a row of it (not the refused duplicate).
StreakChecked(g, day) ==
    IF g.dup
    THEN g.s
    ELSE [g.s EXCEPT !.profiles = PutProfile(@, check_streak(g.profile, day)),
                     !.streak_days[g.profile.user_id] = @ \cup {day}]

\* select(DailyBuff).where(user_id == u, date == day)
BuffRows(bs, u, day) == SelectSeq(bs, LAMBDA b : b.user_id = u /\ b.date = day)

\* str.upper() on the buff names a client sends
Upper(str) ==
    CASE str = "shark" -> "SHARK"
      [] str = "zen" -> "ZEN"
      [] str = "woodpecker" -> "WOODPECKER"
      [] OTHER -> str

BuffInputs == {"", "shark", "ZEN", "WOODPECKER", "LION"}

\* The lookup of the day's buff left out.
AlreadyChosen_never(existing) == FALSE

\* if existing_buff: the day's choice has been made
AlreadyChosen(existing) == existing # <<>>

choose_buff(u, buff_type_str) ==
    LET g == get_or_create_profile(BeginSession, u)
        existing == BuffRows(g.s.buffs, u, today)
        s1 == StreakChecked(g, today)
        s2 == [s1 EXCEPT !.buffs = Append(@,
                  [user_id |-> u, date |-> today, buff_type |-> Upper(buff_type_str)])]
        base == [op |-> "choose_buff", user |-> u, arg |-> buff_type_str,
                 pre |-> Tables, day |-> today]
    IN
    /\ hook.phase = "idle"
    /\ UNCHANGED <<today, user_maps, hook, site>>
    /\ IF buff_type_str = ""
       THEN /\ Rollback
            /\ last' = base @@ [status |-> 400, current_buff |-> None]
       ELSE IF Upper(buff_type_str) \notin BuffType
       THEN /\ Rollback
            /\ last' = base @@ [status |-> 400, current_buff |-> None]
       ELSE IF Len(existing) > 1
       THEN \* scalar_one_or_none raises MultipleResultsFound
            /\ Rollback
            /\ last' = base @@ [status |-> 500, current_buff |-> None]
       ELSE IF AlreadyChosen(existing)
       THEN /\ Rollback
            /\ last' = base @@ [status |-> 409,
                                current_buff |-> Some(existing[1].buff_type)]
       ELSE /\ Commit(s2)
            /\ last' = base @@ [status |-> 200, current_buff |-> None]

ChooseBuff == \E u \in LoggedIn, str \in BuffInputs : choose_buff(u, str)

\* The calendar moves on between requests.
NextDay ==
    /\ hook.phase = "idle"
    /\ today < MaxDay
    /\ today' = today + 1
    /\ last' = [op |-> "next_day", pre |-> Tables, day |-> today]
    /\ UNCHANGED <<profiles, buffs, transactions, inventory, feed_events,
                   challenge_progress, user_maps, streak_days, hook, site>>

----------------------------------------------------------------------------
(* shop.py *)

\* shop_items rows: a global real item, a global mystery box, a mystery box
\* of company 1 with no loot table, and a real item of company 2.
ItemIds == {1, 2, 3, 4}

LootTable ==
    << [name |-> Some("gold"), type |-> "coins", amount |-> Some(4), weight |-> Some(50)],
       [name |-> Some("dust"), type |-> "coins", amount |-> None, weight |-> None],
       [name |-> Some("nothing"), type |-> "miss", amount |-> None, weight |-> Some(1)],
       [name |-> Some("day off"), type |-> "real", amount |-> None, weight |-> Some(1)],
       [name |-> Some("legend"), type |-> "title", amount |-> None, weight |-> Some(0)] >>

Items ==
    [i \in ItemIds |->
        CASE i = 1 -> [id |-> 1, company_id |-> None, price |-> 3, type |-> "REAL",
                       loot_table |-> <<>>]
          [] i = 2 -> [id |-> 2, company_id |-> None, price |-> 2, type |-> "MYSTERY_BOX",
                       loot_table |-> LootTable]
          [] i = 3 -> [id |-> 3, company_id |-> Some(1), price |-> 1, type |-> "MYSTERY_BOX",
                       loot_table |-> <<>>]
          [] i = 4 -> [id |-> 4, company_id |-> Some(2), price |-> 1, type |-> "REAL",
                       loot_table |-> <<>>]]

\* item_id of the request body: 0 stands for a missing or zero item_id,
\* 9 for the id of no row.
ItemInputs == {0, 1, 2, 3, 4, 9}

EmptyBox == [name |-> Some("Empty Box"), type |-> "miss", amount |-> None, weight |-> None]

\* entry.get('weight', 1)
WeightOf(entry) == IF entry.weight = None THEN 1 ELSE entry.weight[1]

\* prize.get("amount", 0)
AmountOf(prize) == IF prize.amount = None THEN 0 ELSE prize.amount[1]

\* open_mystery_box: the prizes random.choices can return, those of positive weight.
open_mystery_box(item) ==
    IF item.loot_table = <<>>
    THEN {EmptyBox}
    ELSE {item.loot_table[k] : k \in {j \in DOMAIN item.loot_table :
                                         WeightOf(item.loot_table[j]) > 0}}

\* What db.session.commit() refuses: feed_events.company_id is NOT NULL.
FlushFails(s) == \E k \in DOMAIN s.feed_events : s.feed_events[k].company_id = None

\* A purchase block that books the prize coins without their Transaction.
Purchase_unbooked(s, u, item, prize) ==
    LET p0 == ProfileOf(s.profiles, u)
        isBox == item.type = "MYSTERY_BOX"
        won == isBox /\ prize.type = "coins"
        p2 == [p0 EXCEPT !.coins = @ - item.price + (IF won THEN AmountOf(prize) ELSE 0)]
    IN [s EXCEPT !.profiles = PutProfile(@, p2),
                 !.transactions = Append(@, [user_id |-> u, amount |-> -item.price, reason |-> "purchase"]),
                 !.inventory = Append(@, [user_id |-> u, item_id |-> item.id,
                                          is_used |-> isBox])]

\* The purchase block of buy_item, up to the commit.
Purchase(s, u, item, prize) ==
    LET p0 == ProfileOf(s.profiles, u)
        p1 == [p0 EXCEPT !.coins = @ - item.price]
        t1 == Append(s.transactions, [user_id |-> u, amount |-> -item.price, reason |-> "purchase"])
        isBox == item.type = "MYSTERY_BOX"
        won == isBox /\ prize.type = "coins"
        p2 == IF won THEN [p1 EXCEPT !.coins = @ + AmountOf(prize)] ELSE p1
        t2 == IF won THEN Append(t1, [user_id |-> u, amount |-> AmountOf(prize), reason |-> "win"]) ELSE t1
        f2 == IF isBox /\ prize.type \in {"real", "title", "physical"}
              THEN Append(s.feed_events,
                          [company_id |-> None, user_id |-> u, event_type |-> "SHOP_WIN"])
              ELSE s.feed_events
        i2 == Append(s.inventory, [user_id |-> u, item_id |-> item.id, is_used |-> isBox])
    IN [s EXCEPT !.profiles = PutProfile(@, p2), !.transactions = t2,
                 !.feed_events = f2, !.inventory = i2]

\* The balance check left out.
NotEnoughCoins_unchecked(profile, item) == FALSE

\* if profile.coins < item.price
NotEnoughCoins(profile, item) == profile.coins < item.price

\* An except clause that gives up the feed event only and keeps the rest.
AfterFailure_kept(s0, s1) == [s1 EXCEPT !.feed_events = s0.feed_events]

\* except Exception: db.session.rollback() leaves the session as it began
AfterFailure(s0, s1) == s0

buy_item(u, item_id, prize) ==
    LET g == get_or_create_profile(BeginSession, u)
        item == shop_items[item_id]
        s1 == Purchase(g.s, u, item, prize)
        base == [op |-> "buy_item", user |-> u, arg |-> item_id, pre |-> Tables,
                 day |-> today, prize |-> prize]
        refused(code) == base @@ [status |-> code, new_balance |-> 0, is_mystery |-> FALSE]
    IN
    /\ hook.phase = "idle"
    /\ Len(transactions) < MaxShopTxn
    /\ UNCHANGED <<today, user_maps, hook, site>>
    /\ IF item_id = 0
       THEN Rollback /\ last' = refused(400)
       ELSE IF item_id \notin ItemIds
       THEN Rollback /\ last' = refused(404)
       ELSE IF item.company_id # None /\ item.company_id # UserCompany(u)
       THEN Rollback /\ last' = refused(403)
       ELSE IF NotEnoughCoins(g.profile, item)
       THEN Rollback /\ last' = refused(400)
       ELSE IF FlushFails(s1)
       THEN Commit(AfterFailure(BeginSession, s1)) /\ last' = refused(500)
       ELSE /\ Commit(s1)
            /\ last' = base @@ [status |-> 200,
                                new_balance |-> Coins(s1.profiles, u),
                                is_mystery |-> item.type = "MYSTERY_BOX"]

BuyItem ==
    \E u \in LoggedIn, item_id \in ItemInputs :
        \E prize \in (IF item_id \in ItemIds /\ shop_items[item_id].type = "MYSTERY_BOX"
                      THEN open_mystery_box(shop_items[item_id]) ELSE {EmptyBox}) :
            buy_item(u, item_id, prize)

----------------------------------------------------------------------------
(* amocrm_integration.py: the partner maps a platform user to an AmoCRM user *)

AmoIds == {7}

\* The accounts: 1 and 2 are employees of companies 1 and 2; 3 and 4 are the
\* partners who own company 1 and company 2; 5 is the super admin; 6 has the
\* partner role and no partner profile; 0 is a visitor who is not logged in.
Accounts == {0, 1, 2, 3, 4, 5, 6}

Role(a) ==
    CASE a \in {1, 2} -> "EMPLOYEE"
      [] a \in {3, 4, 6} -> "PARTNER"
      [] a = 5 -> "SUPER_ADMIN"
      [] OTHER -> "NONE"

\* current_user.is_authenticated
Authenticated(a) == a # 0

\* current_user.partner_profile: None, or Some id of the partner_users row
PartnerProfile(a) == IF a = 3 THEN Some(1) ELSE IF a = 4 THEN Some(2) ELSE None

\* company_id of the request's path: 3 is the id of no company.
CompanyInputs == {1, 2, 3}

CompanyRows(cs, company_id) == {c \in cs : c.id = company_id}

\* The decorator without its last check, of the owner.
partner_owns_company_required_unowned(a, company_id) ==
    IF ~Authenticated(a) THEN "unauthorized"
    ELSE IF PartnerProfile(a) = None THEN "403"
    ELSE IF CompanyRows(companies, company_id) = {} THEN "404"
    ELSE "run"

\* partner_owns_company_required: "run" where the wrapped handler is called,
\* else the answer that ends the request.
partner_owns_company_required(a, company_id) ==
    IF ~Authenticated(a) THEN "unauthorized"
    ELSE IF PartnerProfile(a) = None THEN "403"
    ELSE IF CompanyRows(companies, company_id) = {} THEN "404"
    ELSE IF \A c \in CompanyRows(companies, company_id) :
                Some(c.owner_partner_id) # PartnerProfile(a)
    THEN "403"
    ELSE "run"

MapRows(ms, company_id, platform_id) ==
    {m \in ms : m.company_id = company_id /\ m.platform_user_id = platform_id}

\* The body of crm_map_set: the row of (company, platform user) is changed,
\* or made.
MapSet(ms, company_id, platform_id, amocrm_id) ==
    (ms \ MapRows(ms, company_id, platform_id)) \cup
        {[company_id |-> company_id, platform_user_id |-> platform_id,
          amocrm_user_id |-> amocrm_id]}

\* The route crm_map_set, behind its decorator, asked by account a.
crm_map_set(a, company_id, platform_id, amocrm_id) ==
    /\ hook.phase = "idle"
    /\ user_maps' = IF partner_owns_company_required(a, company_id) = "run"
                    THEN MapSet(user_maps, company_id, platform_id, amocrm_id)
                    ELSE user_maps
    /\ last' = [op |-> "crm_map_set", pre |-> Tables, day |-> today,
                user |-> a, company_id |-> company_id, maps |-> user_maps,
                answer |-> partner_owns_company_required(a, company_id)]
    /\ UNCHANGED <<today, profiles, buffs, transactions, inventory, feed_events,
                   challenge_progress, streak_days, hook, site>>

\* The owner of a company maps one of its employees.
CrmMapSet == \E u \in Users, am \in AmoIds : crm_map_set(u + 2, u, u, am)

\* Any account asks for a mapping in any company.
CrmMapSetByAnyone ==
    \E a \in Accounts, company_id \in CompanyInputs, u \in Users, am \in AmoIds :
        crm_map_set(a, company_id, u, am)

----------------------------------------------------------------------------
(* webhooks.py *)

\* A field of the posted form: a decimal number, a missing key, text that is
\* no number, or the text "inf".
Num(n) == [t |-> "num", v |-> n]
Absent == [t |-> "absent", v |-> 0]
Junk == [t |-> "junk", v |-> 0]
Inf == [t |-> "inf", v |-> 0]

\* int(form.get(key, 0)): ok is FALSE where int() raises ValueError.
ParseInt(f) ==
    CASE f.t = "num" -> [ok |-> TRUE, v |-> f.v]
      [] f.t = "absent" -> [ok |-> TRUE, v |-> 0]
      [] OTHER -> [ok |-> FALSE, v |-> 0]

\* float(form.get(key, 0)): "inf" parses, to a value above every number.
ParseFloat(f) ==
    CASE f.t = "num" -> [ok |-> TRUE, inf |-> FALSE, v |-> f.v]
      [] f.t = "absent" -> [ok |-> TRUE, inf |-> FALSE, v |-> 0]
      [] f.t = "inf" -> [ok |-> TRUE, inf |-> TRUE, v |-> 0]
      [] OTHER -> [ok |-> FALSE, inf |-> FALSE, v |-> 0]

WonLead == [status_id |-> Num(WON_STATUS_ID), responsible_user_id |-> Num(7), price |-> Num(20)]

\* The lead events of a request: the won lead of a mapped user, and the
\* events that differ from it in one field.
LeadEvents ==
    {WonLead}
    \cup {[WonLead EXCEPT !.status_id = x] : x \in {Num(143)}}
    \cup {[WonLead EXCEPT !.responsible_user_id = x] : x \in {Num(8), Absent}}
    \cup {[WonLead EXCEPT !.price = x] : x \in {Num(0), Inf, Junk}}

LongCall == [duration |-> Num(11), responsible_user_id |-> Num(7)]

CallEvents ==
    {LongCall}
    \cup {[LongCall EXCEPT !.duration = x] : x \in {Num(9)}}
    \cup {[LongCall EXCEPT !.responsible_user_id = x] : x \in {Num(8)}}

\* select(AmoCRMUserMap).where(amocrm_user_id == amo_user_id), in every company
AmoRows(ms, amo_user_id) == {m \in ms : m.amocrm_user_id = amo_user_id}

\* _get_user_by_amo_id: scalar_one_or_none raises when two rows match.
_get_user_by_amo_id(ms, amo_user_id) ==
    LET rows == AmoRows(ms, amo_user_id)
    IN IF Cardinality(rows) > 1 THEN [raised |-> TRUE, user |-> None]
       ELSE IF rows = {} THEN [raised |-> FALSE, user |-> None]
       ELSE [raised |-> FALSE, user |-> Some((CHOOSE m \in rows : TRUE).platform_user_id)]

\* Today's buff of the user, None when no row.
BuffOf(bs, u, day) ==
    IF BuffRows(bs, u, day) = <<>> THEN None ELSE Some(BuffRows(bs, u, day)[1].buff_type)

\* The multipliers in halves: 1.5, 0.5, 1.0
DealHalves(buff) ==
    IF buff = Some("SHARK") THEN 3 ELSE IF buff = Some("WOODPECKER") THEN 1 ELSE 2

CallHalves(buff) ==
    IF buff = Some("WOODPECKER") THEN 3 ELSE IF buff = Some("SHARK") THEN 1 ELSE 2

\* The streak bonus in twentieths: 1.05 above a streak of 3
StreakTwentieths(streak) == IF streak > 3 THEN 21 ELSE 20

\* int(budget * multiplier) for a budget > 0: the floats involved round to the
\* exact quotient's integer part for the amounts of the model.
DealAmount(budget, buff, streak) ==
    (budget * DealHalves(buff) * StreakTwentieths(streak)) \div 40

CallAmount(duration, buff) == (duration * CallHalves(buff)) \div 2

\* challenges rows: of company 1 a sales-volume challenge over all the days,
\* a sales-count challenge from day 2 on, a calls-count challenge of day 1 and
\* a switched-off calls-count challenge; of company 2 a sales-count challenge.
Challenges ==
    { [id |-> 1, company_id |-> 1, goal_type |-> "SALES_VOLUME", is_active |-> TRUE,
       start_date |-> 0, end_date |-> 9],
      [id |-> 2, company_id |-> 1, goal_type |-> "SALES_COUNT", is_active |-> TRUE,
       start_date |-> 2, end_date |-> 9],
      [id |-> 3, company_id |-> 1, goal_type |-> "CALLS_COUNT", is_active |-> TRUE,
       start_date |-> 0, end_date |-> 1],
      [id |-> 4, company_id |-> 1, goal_type |-> "CALLS_COUNT", is_active |-> FALSE,
       start_date |-> 0, end_date |-> 9],
      [id |-> 5, company_id |-> 2, goal_type |-> "SALES_COUNT", is_active |-> TRUE,
       start_date |-> 0, end_date |-> 9] }

ProgressRows(rows, c, u) == {r \in rows : r.challenge_id = c /\ r.user_id = u}

\* _update_challenge_progress without the two date conditions.
_update_challenge_progress_undated(s, u, goal_type, value) ==
    LET ids == {c.id : c \in {c \in challenges :
                                 /\ Some(c.company_id) = UserCompany(u)
                                 /\ c.is_active
                                 /\ c.goal_type = goal_type}}
        kept == {r \in s.challenge_progress :
                    ~(r.challenge_id \in ids /\ r.user_id = u)}
        old(c) == IF {r \in s.challenge_progress : r.challenge_id = c /\ r.user_id = u} = {}
                  THEN 0
                  ELSE (CHOOSE r \in s.challenge_progress :
                            r.challenge_id = c /\ r.user_id = u).current_value
    IN [s EXCEPT !.challenge_progress =
            kept \cup {[challenge_id |-> c, user_id |-> u, current_value |-> old(c) + value] :
                          c \in ids}]

\* _update_challenge_progress: every running challenge of the user's company
\* with this goal gets the value added to the user's row, made at 0 if missing.
_update_challenge_progress(s, u, goal_type, value) ==
    LET active == {c \in challenges :
                      /\ Some(c.company_id) = UserCompany(u)
                      /\ c.is_active
                      /\ c.start_date <= today
                      /\ c.end_date >= today
                      /\ c.goal_type = goal_type}
        ids == {c.id : c \in active}
        kept == {r \in s.challenge_progress :
                    ~(r.challenge_id \in ids /\ r.user_id = u)}
        old(c) == IF ProgressRows(s.challenge_progress, c, u) = {} THEN 0
                  ELSE (CHOOSE r \in ProgressRows(s.challenge_progress, c, u) : TRUE).current_value
    IN [s EXCEPT !.challenge_progress =
            kept \cup {[challenge_id |-> c, user_id |-> u, current_value |-> old(c) + value] :
                          c \in ids}]

\* The outcome of one event: the session after it, and whether the event was
\* skipped (continue), rewarded, or raised into the loop's except clause.
Outcome(s, what) == [s |-> s, outcome |-> what]

\* The end of a reward function: the coins, the XP and the Transaction.
Rewarded(s1, u, amount, xp, reason) ==
    LET p1 == ProfileOf(s1.profiles, u)
        p2 == [p1 EXCEPT !.coins = @ + amount, !.xp = @ + xp]
    IN [s1 EXCEPT !.profiles = PutProfile(@, p2),
                  !.transactions = Append(@, [user_id |-> u, amount |-> amount,
                                              reason |-> reason])]

\* The reward functions.  Their first query flushes the session: a duplicate
\* profile row breaks the unique user_id, the flush fails and the session stays
\* failed.  scalar_one_or_none raises on two buff rows; int() raises on inf.
_process_won_deal_reward(s, u, budget) ==
    LET g == get_or_create_profile(s, u)
        s1 == StreakChecked(g, today)
        streak == ProfileOf(s1.profiles, u).current_streak
        amount == DealAmount(budget.v, BuffOf(s1.buffs, u, today), streak)
    IN IF g.dup THEN Outcome([s EXCEPT !.failed = TRUE], "error")
       ELSE IF Len(BuffRows(s1.buffs, u, today)) > 1 THEN Outcome(s1, "error")
       ELSE IF budget.inf THEN Outcome(s1, "error")
       ELSE Outcome(_update_challenge_progress(
                        _update_challenge_progress(
                            Rewarded(s1, u, amount, amount \div 10, "deal"),
                            u, "SALES_VOLUME", budget.v),
                        u, "SALES_COUNT", 1), "rewarded")

_process_call_reward(s, u, duration) ==
    LET g == get_or_create_profile(s, u)
        s1 == StreakChecked(g, today)
        amount == CallAmount(duration, BuffOf(s1.buffs, u, today))
    IN IF g.dup THEN Outcome([s EXCEPT !.failed = TRUE], "error")
       ELSE IF Len(BuffRows(s1.buffs, u, today)) > 1 THEN Outcome(s1, "error")
       ELSE Outcome(_update_challenge_progress(Rewarded(s1, u, amount, 5, "call"),
                                               u, "CALLS_COUNT", 1), "rewarded")

\* The body of the loop over the lead events.
LeadStep(s, lead) ==
    LET status == ParseInt(lead.status_id)
        amo_user_id == ParseInt(lead.responsible_user_id)
        found == _get_user_by_amo_id(user_maps, amo_user_id.v)
        budget == ParseFloat(lead.price)
    IN IF ~status.ok THEN Outcome(s, "error")
       ELSE IF status.v # WON_STATUS_ID THEN Outcome(s, "skipped")
       ELSE IF ~amo_user_id.ok THEN Outcome(s, "error")
       ELSE IF amo_user_id.v = 0 THEN Outcome(s, "skipped")
       ELSE IF s.failed \/ found.raised THEN Outcome(s, "error")
       ELSE IF found.user = None THEN Outcome(s, "skipped")
       ELSE IF ~budget.ok THEN Outcome(s, "error")
       ELSE IF ~budget.inf /\ budget.v <= 0 THEN Outcome(s, "skipped")
       ELSE _process_won_deal_reward(s, found.user[1], budget)

\* The anti-fraud check left out.
TooShort_never(duration) == FALSE

\* if duration < MIN_CALL_DURATION
TooShort(duration) == duration < MIN_CALL_DURATION

\* The body of the loop over the call events.
CallStep(s, call) ==
    LET duration == ParseInt(call.duration)
        amo_user_id == ParseInt(call.responsible_user_id)
        found == _get_user_by_amo_id(user_maps, amo_user_id.v)
    IN IF ~duration.ok THEN Outcome(s, "error")
       ELSE IF TooShort(duration.v) THEN Outcome(s, "skipped")
       ELSE IF ~amo_user_id.ok THEN Outcome(s, "error")
       ELSE IF s.failed \/ found.raised THEN Outcome(s, "error")
       ELSE IF found.user = None THEN Outcome(s, "skipped")
       ELSE _process_call_reward(s, found.user[1], duration.v)

\* handle_amo_events, an event at a time: the lead events, then the call
\* events, then the commit.
HookSession == IF hook.phase = "idle" THEN BeginSession ELSE hook.s
HookProcessed == IF hook.phase = "idle" THEN 0 ELSE hook.processed

\* The reward Transactions among the rows.
Rewards(ts) == SelectSeq(ts, LAMBDA x : x.reason \in {"deal", "call"})

HookStep(kind, ev, r) ==
    /\ Len(Rewards(r.s.transactions)) <= MaxTxn
    /\ hook' = [phase |-> kind, s |-> r.s,
                processed |-> HookProcessed + (IF r.outcome = "rewarded" THEN 1 ELSE 0)]
    /\ last' = [op |-> kind, ev |-> ev, outcome |-> r.outcome, pre |-> HookSession,
                processed_before |-> HookProcessed, day |-> today]
    /\ UNCHANGED <<today, user_maps, site>>
    /\ Rollback

HookLead ==
    /\ hook.phase \in {"idle", "lead"}
    /\ \E lead \in LeadEvents : HookStep("lead", lead, LeadStep(HookSession, lead))

HookCall ==
    /\ hook.phase \in {"idle", "lead", "call"}
    /\ \E call \in CallEvents : HookStep("call", call, CallStep(HookSession, call))

\* db.session.commit() and the answer; on a failed session the commit raises
\* and the request ends in a 500 with nothing stored.
HookFinish ==
    /\ hook.phase # "idle"
    /\ hook' = [phase |-> "idle"]
    /\ UNCHANGED <<today, user_maps, site>>
    /\ IF hook.s.failed
       THEN /\ Rollback
            /\ last' = [op |-> "amo_events", status |-> 500, processed |-> hook.processed,
                        pre |-> Tables, day |-> today]
       ELSE /\ Commit(hook.s)
            /\ last' = [op |-> "amo_events", status |-> 200, processed |-> hook.processed,
                        pre |-> Tables, day |-> today]

----------------------------------------------------------------------------
\* The tables at the start: no activity yet, the first user with no profile
\* or with a profile that has been active on the three days before day 1 and
\* has its 5 coins from a deal of budget 5, counted in the sales-volume
\* challenge.
Start ==
    /\ today = 1
    /\ profiles \in {{}, {VeteranProfile(1)}}
    /\ buffs = <<>>
    /\ transactions = <<>>
    /\ inventory = <<>>
    /\ feed_events = <<>>
    /\ challenge_progress =
          {[challenge_id |-> 1, user_id |-> p.user_id, current_value |-> p.coins] :
              p \in profiles}
    /\ streak_days = [u \in Users |->
                        IF ProfileRows(profiles, u) = {} THEN {} ELSE {-2, -1, 0}]
    /\ hook = [phase |-> "idle"]
    /\ last = [op |-> "init"]

CompanyIds == {1, 2}

\* The workers that serve requests at the same time.
Workers == {1, 2}

Idle == [pc |-> "idle"]

\* The companies and the feed at the start: two companies, each with its
\* owner and its employee.
Site ==
    /\ companies = {[id |-> 1, owner_partner_id |-> 1], [id |-> 2, owner_partner_id |-> 2]}
    /\ user_company = [a \in Accounts |-> IF a \in {1, 2} THEN Some(a) ELSE None]
    /\ challenges = Challenges
    /\ shop_items = Items
    /\ connections = {}
    /\ posts = {}
    /\ likes = <<>>
    /\ clock = 0
    /\ procs = [w \in Workers |-> Idle]
    /\ amo = [c \in CompanyIds |-> [valid |-> None, issued |-> 0]]

\* The first user is mapped to AmoCRM user 7.
Mapped == {[company_id |-> 1, platform_user_id |-> 1, amocrm_user_id |-> 7]}

\* The default database, sqlite, on which no request turns foreign keys on;
\* DATABASE_URL may name a database that enforces them.
Sqlite == foreign_keys = FALSE
Deployment == foreign_keys \in BOOLEAN

\* The buffs, the streak and the webhook rewards over the days.
Init ==
    /\ Start
    /\ Site
    /\ Sqlite
    /\ user_maps = Mapped

Next ==
    \/ NextDay
    \/ ChooseBuff
    \/ CrmMapSet
    \/ HookLead
    \/ HookCall
    \/ HookFinish

Spec == Init /\ [][Next]_vars

\* The shop on one day.
InitShop ==
    /\ Start
    /\ Site
    /\ Sqlite
    /\ user_maps = Mapped

NextShop ==
    \/ BuyItem
    \/ HookLead
    \/ HookCall
    \/ HookFinish

SpecShop == InitShop /\ [][NextShop]_vars


----------------------------------------------------------------------------
(* The shop claims, checked under SpecShop *)

Range(seq) == {seq[k] : k \in DOMAIN seq}

Bought == last.op = "buy_item" /\ last.status = 200

\* C1: with prices and loot amounts that are not negative and requests that
\* run one at a time, no balance ever falls below zero, whatever purchases and
\* webhook rewards came before: a purchase is carried out only when the
\* balance covers the price, and an available item the balance does not cover
\* is refused with 400.
C1_BalanceNeverNegative ==
    /\ \A p \in profiles : p.coins >= 0
    /\ Bought => Coins(last.pre.profiles, last.user) >= Items[last.arg].price
    /\ (/\ last.op = "buy_item"
        /\ last.arg \in ItemIds
        /\ Items[last.arg].company_id \in {None, UserCompany(last.user)}
        /\ Coins(last.pre.profiles, last.user) < Items[last.arg].price)
       => last.status = 400

\* A purchase refused for lack of coins, by a user who had coins and has spent
\* some of them.
C1_RefusedAfterSpending ==
    /\ last.op = "buy_item"
    /\ last.status = 400
    /\ last.arg \in ItemIds
    /\ Coins(profiles, last.user) > 0
    /\ Len(inventory) > 0

\* C2: a buy_item request answered with an error (400, 404, 403, 400 or the
\* 500 of the rolled-back purchase block) leaves the balance and the
\* Transaction, UserInventory and FeedEvent rows as they were before it.
C2_ErrorsChangeNothing ==
    (last.op = "buy_item" /\ last.status # 200) =>
        /\ last.status \in {400, 403, 404, 500}
        /\ Coins(profiles, last.user) = Coins(last.pre.profiles, last.user)
        /\ transactions = last.pre.transactions
        /\ inventory = last.pre.inventory
        /\ feed_events = last.pre.feed_events

\* The purchase block has raised: a box the user could pay gave a prize whose
\* feed event the database refuses.
C2_PurchaseBlockRaised ==
    /\ last.op = "buy_item"
    /\ last.status = 500
    /\ last.prize.type = "real"
    /\ Coins(profiles, last.user) >= Items[last.arg].price

\* The coins a box prize of type coins brings, 0 for every other purchase.
C3_PrizeCoins ==
    IF Items[last.arg].type = "MYSTERY_BOX" /\ last.prize.type = "coins"
    THEN (IF last.prize.amount = None THEN 0 ELSE last.prize.amount[1])
    ELSE 0

\* C3: a successful buy_item takes the price off the balance with one
\* Transaction of -price; adds one UserInventory row, is_used False for a
\* non-box item and True for a box; a box's prize is an entry of its
\* loot_table, or the Empty Box miss when the table is empty; a coins prize
\* adds its amount to the balance with a second Transaction of that amount;
\* new_balance is the old balance - price + amount; nothing else changes.
C3_PurchaseEffects ==
    Bought =>
        LET item == Items[last.arg]
            u == last.user
            pre == last.pre
            isBox == item.type = "MYSTERY_BOX"
            coinsPrize == isBox /\ last.prize.type = "coins"
            bought == <<[user_id |-> u, amount |-> -item.price, reason |-> "purchase"]>>
            won == IF coinsPrize THEN <<[user_id |-> u, amount |-> C3_PrizeCoins, reason |-> "win"]>>
                   ELSE <<>>
        IN /\ Coins(profiles, u) = Coins(pre.profiles, u) - item.price + C3_PrizeCoins
           /\ last.new_balance = Coins(pre.profiles, u) - item.price + C3_PrizeCoins
           /\ transactions = pre.transactions \o bought \o won
           /\ inventory = Append(pre.inventory,
                                 [user_id |-> u, item_id |-> item.id, is_used |-> isBox])
           /\ isBox => IF item.loot_table = <<>> THEN last.prize = EmptyBox
                       ELSE last.prize \in Range(item.loot_table)
           /\ last.is_mystery = isBox
           /\ feed_events = pre.feed_events
           /\ buffs = pre.buffs
           /\ challenge_progress = pre.challenge_progress
           /\ \A p \in profiles :
                 \E q \in pre.profiles : p = [q EXCEPT !.coins = p.coins]

\* A box bought with its coins prize won.
C3_BoxWonCoins ==
    /\ Bought
    /\ Items[last.arg].type = "MYSTERY_BOX"
    /\ last.prize.type = "coins"
    /\ C3_PrizeCoins > 0

----------------------------------------------------------------------------
(* The buff and streak claims, checked under Spec *)

C5_Run(days, d) ==
    CHOOSE n \in 0..Cardinality(days) :
        /\ \A k \in 0..(n - 1) : (d - k) \in days
        /\ (d - n) \notin days

C5_Latest(days) == CHOOSE d \in days : \A e \in days : e <= d

C5_Counted(ps, called) ==
    \A p \in ps :
        IF called[p.user_id] = {}
        THEN p.current_streak = 0 /\ p.last_activity_date = None
        ELSE /\ p.last_activity_date = Some(C5_Latest(called[p.user_id]))
             /\ p.current_streak = C5_Run(called[p.user_id], C5_Latest(called[p.user_id]))

\* The profiles as the running request sees them.
C5_Current == IF hook.phase = "idle" THEN profiles ELSE hook.s.profiles

\* C5: a profile's current_streak is the number of days in a row, ending at
\* last_activity_date, on each of which check_streak was called on it;
\* last_activity_date is the day of the latest call (a new profile has streak
\* 0 and no date); a call on a day already counted changes neither.
C5_StreakCountsDays ==
    /\ C5_Counted(profiles, streak_days)
    /\ hook.phase # "idle" => C5_Counted(hook.s.profiles, hook.s.streak_days)
    /\ last.op # "init" =>
          \A q \in last.pre.profiles :
              q.last_activity_date = Some(last.day) =>
                  \E p \in C5_Current :
                      /\ p.user_id = q.user_id
                      /\ p.current_streak = q.current_streak
                      /\ p.last_activity_date = q.last_activity_date

\* A reward, with its check_streak call, on a day that had already brought
\* the streak from 3 to 4.
C5_SecondCallSameDay ==
    /\ last.op \in {"lead", "call"}
    /\ last.outcome = "rewarded"
    /\ \E q \in last.pre.profiles :
          q.last_activity_date = Some(today) /\ q.current_streak = 4

----------------------------------------------------------------------------
(* The webhook claims, checked under Spec *)

\* The request's session and count after the event last names.
Skipped ==
    /\ last.outcome # "rewarded"
    /\ TablesOf(hook.s) = TablesOf(last.pre)
    /\ hook.processed = last.processed_before

\* The platform users the event's responsible_user_id is mapped to.
MappedUsers(ev) ==
    IF ev.responsible_user_id.t # "num" THEN {}
    ELSE {m.platform_user_id : m \in AmoRows(user_maps, ev.responsible_user_id.v)}

\* C6: handle_amo_events answers 200 whatever the reward logic does: an
\* event that raises leaves the later events of the request their normal
\* outcome, and processed is the number of events rewarded, each of them
\* with its Transaction stored.
C6_Answers200 ==
    /\ last.op = "amo_events" =>
          /\ last.status = 200
          /\ last.processed =
                Len(Rewards(transactions)) - Len(Rewards(last.pre.transactions))
    /\ last.op = "lead" =>
          last.outcome = LeadStep([last.pre EXCEPT !.failed = FALSE], last.ev).outcome
    /\ last.op = "call" =>
          last.outcome = CallStep([last.pre EXCEPT !.failed = FALSE], last.ev).outcome

\* C7: a call event with a duration below 10 seconds, or with a responsible
\* user mapped to no platform user, changes nothing (coins, XP, Transactions,
\* streak, last_activity_date, challenge progress) and is not counted.
C7_IgnoredCalls ==
    (/\ last.op = "call"
     /\ \/ last.ev.duration.t = "num" /\ last.ev.duration.v < 10
        \/ MappedUsers(last.ev) = {})
    => Skipped

\* A call of 9 seconds by a mapped user, in a request that has rewarded an
\* event before it.
C7_ShortCallOfMappedUser ==
    /\ last.op = "call"
    /\ last.ev.duration = Num(9)
    /\ MappedUsers(last.ev) = {1}
    /\ last.processed_before > 0
    /\ ~last.pre.failed

\* The conditions of C8 on a lead event.
C8_Eligible(ev) ==
    /\ ev.status_id = Num(142)
    /\ ev.responsible_user_id.t = "num"
    /\ ev.responsible_user_id.v # 0
    /\ MappedUsers(ev) # {}
    /\ ev.price.t = "num"
    /\ ev.price.v > 0

\* C8: a lead event is rewarded if and only if its status_id is 142, its
\* responsible_user_id is not 0 and mapped to a platform user, and its price
\* is above 0; every other lead event changes nothing and is not counted.
\* (Events with the price "inf" are left aside.)
C8_RewardedIffEligible ==
    (last.op = "lead" /\ last.ev.price.t # "inf") =>
        /\ last.outcome = "rewarded" <=> C8_Eligible(last.ev)
        /\ ~C8_Eligible(last.ev) => Skipped

\* floor(b * m), m in hundredths, with the 1.05 of a streak above 3
C9_Reward(b, buff, streak) ==
    (b * (CASE buff = Some("SHARK") -> 150
            [] buff = Some("WOODPECKER") -> 50
            [] OTHER -> 100)
       * (IF streak > 3 THEN 105 ELSE 100)) \div 10000

\* floor(d * m), m in hundredths
C10_Reward(d, buff) ==
    (d * (CASE buff = Some("WOODPECKER") -> 150
            [] buff = Some("SHARK") -> 50
            [] OTHER -> 100)) \div 100

Xp(ps, u) == IF ProfileRows(ps, u) = {} THEN 0 ELSE ProfileOf(ps, u).xp

\* The event last names has given user u exactly r coins, x XP and one
\* Transaction of r.
Paid(u, r, x, reason) ==
    /\ last.outcome = "rewarded"
    /\ Coins(hook.s.profiles, u) = Coins(last.pre.profiles, u) + r
    /\ Xp(hook.s.profiles, u) = Xp(last.pre.profiles, u) + x
    /\ hook.s.transactions =
          Append(last.pre.transactions, [user_id |-> u, amount |-> r, reason |-> reason])
    /\ hook.processed = last.processed_before + 1

\* The deal reward the claim gives the event last names.
C9_Due(u) ==
    C9_Reward(last.ev.price.v, BuffOf(last.pre.buffs, u, last.day),
              ProfileOf(hook.s.profiles, u).current_streak)

\* C9: an eligible won lead with budget b gives its user r = floor(b * m)
\* coins, m being 1.5 under SHARK, 0.5 under WOODPECKER and 1 under ZEN or no
\* buff, times 1.05 when the streak is above 3; floor(r * 0.1) XP; and one
\* Transaction of r.  For one budget and streak the SHARK reward is at least
\* the reward without buff, which is at least the WOODPECKER reward.
C9_DealReward ==
    (/\ last.op = "lead"
     /\ C8_Eligible(last.ev)
     /\ Cardinality(MappedUsers(last.ev)) = 1)
    => LET u == CHOOSE v \in MappedUsers(last.ev) : TRUE
       IN /\ ProfileRows(hook.s.profiles, u) # {}
          /\ Paid(u, C9_Due(u), C9_Due(u) \div 10, "deal")
          /\ \A streak \in 0..5 :
                /\ C9_Reward(last.ev.price.v, Some("SHARK"), streak)
                      >= C9_Reward(last.ev.price.v, None, streak)
                /\ C9_Reward(last.ev.price.v, None, streak)
                      >= C9_Reward(last.ev.price.v, Some("WOODPECKER"), streak)

\* What C9 says of the deals that are rewarded.
DealRewardWhenRewarded ==
    (last.op = "lead" /\ last.outcome = "rewarded") =>
        LET u == CHOOSE v \in MappedUsers(last.ev) : TRUE
        IN Paid(u, C9_Due(u), C9_Due(u) \div 10, "deal")

\* C10: an eligible call of d >= 10 seconds gives its user r = floor(d * m)
\* coins, m being 1.5 under WOODPECKER, 0.5 under SHARK and 1 otherwise;
\* 5 XP; and one Transaction of r.  The streak plays no part in r, and is
\* brought up to the day.
C10_CallReward ==
    (/\ last.op = "call"
     /\ last.ev.duration.t = "num"
     /\ last.ev.duration.v >= 10
     /\ Cardinality(MappedUsers(last.ev)) = 1)
    => LET u == CHOOSE v \in MappedUsers(last.ev) : TRUE
       IN /\ ProfileRows(hook.s.profiles, u) # {}
          /\ Paid(u, C10_Reward(last.ev.duration.v, BuffOf(last.pre.buffs, u, last.day)),
                  5, "call")
          /\ ProfileOf(hook.s.profiles, u).last_activity_date = Some(last.day)

\* What C10 says of the calls that are rewarded.
CallRewardWhenRewarded ==
    (last.op = "call" /\ last.outcome = "rewarded") =>
        LET u == CHOOSE v \in MappedUsers(last.ev) : TRUE
        IN /\ Paid(u, C10_Reward(last.ev.duration.v, BuffOf(last.pre.buffs, u, last.day)),
                   5, "call")
           /\ ProfileOf(hook.s.profiles, u).last_activity_date = Some(last.day)

----------------------------------------------------------------------------
(* The challenge claim, checked under Spec *)

\* What the event last names adds to the progress of its user in challenge c.
C11_Due(c, u) ==
    IF /\ Some(c.company_id) = UserCompany(u)
       /\ c.is_active
       /\ c.start_date <= last.day
       /\ last.day <= c.end_date
    THEN (IF last.op = "lead" /\ c.goal_type = "SALES_VOLUME" THEN last.ev.price.v
          ELSE IF last.op = "lead" /\ c.goal_type = "SALES_COUNT" THEN 1
          ELSE IF last.op = "call" /\ c.goal_type = "CALLS_COUNT" THEN 1
          ELSE 0)
    ELSE 0

\* The challenges whose goal the event last names counts for.
C11_Counted(c, u) ==
    /\ Some(c.company_id) = UserCompany(u)
    /\ c.is_active
    /\ c.start_date <= last.day
    /\ last.day <= c.end_date
    /\ c.goal_type \in (IF last.op = "lead" THEN {"SALES_VOLUME", "SALES_COUNT"}
                        ELSE {"CALLS_COUNT"})

C11_OneRow(rows) ==
    \A r1, r2 \in rows :
        (r1.challenge_id = r2.challenge_id /\ r1.user_id = r2.user_id) => r1 = r2

\* C11: a rewarded deal adds int(budget) to the user's progress in the
\* SALES_VOLUME challenges and 1 in the SALES_COUNT challenges, a rewarded
\* call 1 in the CALLS_COUNT challenges, of the challenges of the user's
\* company that are active and run today; a missing row is made at 0 first;
\* no other progress row changes; there is one row at most per challenge and
\* user.
C11_ChallengeProgress ==
    /\ C11_OneRow(challenge_progress)
    /\ hook.phase # "idle" => C11_OneRow(hook.s.challenge_progress)
    /\ (last.op \in {"lead", "call"} /\ last.outcome = "rewarded") =>
          LET u == CHOOSE v \in MappedUsers(last.ev) : TRUE
              before == last.pre.challenge_progress
              after == hook.s.challenge_progress
          IN /\ \A c \in challenges :
                   IF C11_Counted(c, u)
                   THEN \E r \in after :
                          /\ r.challenge_id = c.id
                          /\ r.user_id = u
                          /\ r.current_value =
                                (IF ProgressRows(before, c.id, u) = {} THEN 0
                                 ELSE (CHOOSE q \in ProgressRows(before, c.id, u) : TRUE).current_value)
                                + C11_Due(c, u)
                   ELSE ProgressRows(after, c.id, u) = ProgressRows(before, c.id, u)
             /\ \A r \in after \cup before :
                   r.user_id # u => (r \in after /\ r \in before)

\* A deal rewarded on day 2: it adds its budget to the sales-volume row the
\* user had, makes the sales-count row, and leaves out the calls challenge.
C11_DealOnDayTwo ==
    /\ last.op = "lead"
    /\ last.outcome = "rewarded"
    /\ last.day = 2
    /\ ProgressRows(last.pre.challenge_progress, 1, 1) # {}
    /\ ProgressRows(last.pre.challenge_progress, 2, 1) = {}
    /\ ProgressRows(hook.s.challenge_progress, 2, 1) # {}

----------------------------------------------------------------------------
(* The partner's routes, checked under SpecPartner *)

InitPartner ==
    /\ Start
    /\ Site
    /\ Sqlite
    /\ user_maps = Mapped

NextPartner ==
    \/ CrmMapSetByAnyone

SpecPartner == InitPartner /\ [][NextPartner]_vars

\* The requester of the request last names owns the company it names.
C12_Owner ==
    /\ last.user # 0
    /\ PartnerProfile(last.user) # None
    /\ \E c \in companies :
          c.id = last.company_id /\ Some(c.owner_partner_id) = PartnerProfile(last.user)

\* C12: a handler behind partner_owns_company_required runs only for a
\* requester who is logged in, has a partner profile and owns the existing
\* company of the path; every other request ends with the login manager's
\* answer, 403 or 404, and changes nothing.
C12_OnlyTheOwnerRuns ==
    last.op = "crm_map_set" =>
        /\ last.answer = "run" <=> C12_Owner
        /\ last.answer = "unauthorized" <=> last.user = 0
        /\ last.answer = "404" =>
              \A c \in companies : c.id # last.company_id
        /\ last.answer # "run" =>
              /\ last.answer \in {"unauthorized", "403", "404"}
              /\ user_maps = last.maps
              /\ Tables = last.pre

\* A partner with a profile asks for a company of another partner, after
\* the owner has changed the mappings.
C12_OtherPartnerRefused ==
    /\ last.op = "crm_map_set"
    /\ last.answer = "403"
    /\ PartnerProfile(last.user) # None
    /\ user_maps # Mapped

----------------------------------------------------------------------------
(* amocrm_integration.py: the OAuth connection of a company *)

AMO_STATE_SECRET == "dev_secret_change_me_please"

\* The seconds before the expiry at which a token is renewed.
RefreshMargin == 60

\* The seconds between two readings of the clock.
TickSeconds == 30

\* _sign_state: the HMAC of the payload under the secret; equal for equal
\* secret and payload only.
_sign_state(secret, payload) == [hmac |-> secret, of |-> payload]

\* The state a client sends back: missing, text that does not decode, or an
\* object of a payload p and a signature s.
NoSignature == [hmac |-> "", of |-> [cid |-> 0]]
NoState == [kind |-> "missing", p |-> [cid |-> 0], s |-> NoSignature]
GarbageState == [kind |-> "garbage", p |-> [cid |-> 0], s |-> NoSignature]
StateOf(payload, sig) == [kind |-> "object", p |-> payload, s |-> sig]

\* The state amocrm_connect hands out for a company.
SignedState(company_id) ==
    StateOf([cid |-> company_id], _sign_state(AMO_STATE_SECRET, [cid |-> company_id]))

ConnectionRows(cs, company_id) == {c \in cs : c.company_id = company_id}

\* _get_connection_or_none
_get_connection_or_none(cs, company_id) ==
    IF ConnectionRows(cs, company_id) = {} THEN None
    ELSE Some(CHOOSE c \in ConnectionRows(cs, company_id) : TRUE)

PutConnection(cs, conn) == (cs \ ConnectionRows(cs, conn.company_id)) \cup {conn}

\* What AmoCRM answers to a token request: 200 with new tokens, a refusal,
\* a server error, or no answer at all.
TokenAnswer(k, expires_in) ==
    [status_code |-> 200, access_token |-> Some(k), refresh_token |-> Some(k + 10),
     expires_in |-> expires_in]
Refusal(code) ==
    [status_code |-> code, access_token |-> None, refresh_token |-> None, expires_in |-> 0]
NoAnswer == Refusal(0)

Answers ==
    {TokenAnswer(1, 120), TokenAnswer(2, 0), Refusal(400), Refusal(401), Refusal(500), NoAnswer}

\* _save_tokens
_save_tokens(cs, conn, data) ==
    PutConnection(cs, [conn EXCEPT !.access_token = data.access_token,
                                   !.refresh_token = data.refresh_token,
                                   !.expires_at = Some(clock + data.expires_in)])

\* _clear_tokens
_clear_tokens(cs, company_id) == cs \ ConnectionRows(cs, company_id)

\* amocrm_connect, asked by the owner: the client's data are stored on the
\* company's connection, made if missing.
amocrm_connect(a, company_id, base_domain) ==
    LET found == _get_connection_or_none(connections, company_id)
        conn == IF found = None
                THEN [company_id |-> company_id, client_id |-> None, client_secret |-> None,
                      base_domain |-> None, access_token |-> None, refresh_token |-> None,
                      expires_at |-> None]
                ELSE found[1]
        ok == partner_owns_company_required(a, company_id) = "run" /\ base_domain # ""
    IN /\ hook.phase = "idle"
       /\ connections' =
             IF ok
             THEN PutConnection(connections,
                      [conn EXCEPT !.client_id = Some("id"), !.client_secret = Some("secret"),
                                   !.base_domain = Some(base_domain)])
             ELSE connections
       /\ last' = [op |-> "amocrm_connect", user |-> a, company_id |-> company_id,
                   pre |-> connections,
                   status |-> IF ok THEN "200"
                              ELSE IF partner_owns_company_required(a, company_id) = "run"
                              THEN "400"
                              ELSE partner_owns_company_required(a, company_id)]
       /\ UNCHANGED <<today, profiles, buffs, transactions, inventory, feed_events,
                      challenge_progress, user_maps, streak_days, hook,
                      companies, user_company, challenges, shop_items, posts, likes, clock, foreign_keys, procs, amo>>

AmocrmConnect ==
    \E a \in {3, 4}, company_id \in CompanyIds, base_domain \in {"", "crm.example"} :
        amocrm_connect(a, company_id, base_domain)

\* Time passes.
Tick ==
    /\ hook.phase = "idle"
    /\ clock < MaxTicks * TickSeconds
    /\ clock' = clock + TickSeconds
    /\ last' = [op |-> "tick"]
    /\ UNCHANGED <<today, profiles, buffs, transactions, inventory, feed_events,
                   challenge_progress, user_maps, streak_days, hook,
                   companies, user_company, challenges, shop_items, connections,
                   posts, likes, foreign_keys, procs, amo>>

\* _refresh_if_needed: the connection after the call, whether AmoCRM was
\* contacted, and what the caller gets.
Fresh_always(conn) == FALSE /\ conn = conn

Fresh(conn) ==
    /\ conn.expires_at # None
    /\ conn.expires_at[1] # 0
    /\ clock + RefreshMargin < conn.expires_at[1]

_refresh_if_needed(cs, company_id, r) ==
    LET found == _get_connection_or_none(cs, company_id)
    IN IF found = None
       THEN [connections |-> cs, contacted |-> FALSE, returned |-> None]
       ELSE IF found[1].refresh_token = None \/ Fresh(found[1])
       THEN [connections |-> cs, contacted |-> FALSE, returned |-> found]
       ELSE IF r = NoAnswer
       THEN [connections |-> cs, contacted |-> TRUE, returned |-> Some("503")]
       ELSE IF r.status_code = 200
       THEN [connections |-> _save_tokens(cs, found[1], r), contacted |-> TRUE,
             returned |-> _get_connection_or_none(_save_tokens(cs, found[1], r), company_id)]
       ELSE IF r.status_code \in {400, 401}
       THEN [connections |-> _clear_tokens(cs, company_id), contacted |-> TRUE,
             returned |-> None]
       ELSE [connections |-> cs, contacted |-> TRUE, returned |-> None]

RefreshIfNeeded ==
    \E company_id \in CompanyIds, r \in Answers :
        /\ hook.phase = "idle"
        /\ connections' = _refresh_if_needed(connections, company_id, r).connections
        /\ last' = [op |-> "_refresh_if_needed", company_id |-> company_id, r |-> r,
                    pre |-> connections, now |-> clock,
                    contacted |-> _refresh_if_needed(connections, company_id, r).contacted,
                    returned |-> _refresh_if_needed(connections, company_id, r).returned]
        /\ UNCHANGED <<today, profiles, buffs, transactions, inventory, feed_events,
                       challenge_progress, user_maps, streak_days, hook,
                       companies, user_company, challenges, shop_items, posts, likes, clock, foreign_keys, procs, amo>>

\* The callback requests: the one AmoCRM sends after amocrm_connect of
\* company 1, and the requests that differ from it in one parameter.
CallbackOf(code, state, referer) == [code |-> code, state |-> state, referer |-> referer]

Callbacks ==
    {CallbackOf(TRUE, SignedState(1), None),
     CallbackOf(FALSE, SignedState(1), None),
     CallbackOf(TRUE, NoState, None),
     CallbackOf(TRUE, GarbageState, None),
     CallbackOf(TRUE, StateOf([cid |-> 1], NoSignature), None),
     CallbackOf(TRUE, StateOf([cid |-> 1], _sign_state("guess", [cid |-> 1])), None),
     CallbackOf(TRUE, StateOf([cid |-> 1], _sign_state(AMO_STATE_SECRET, [cid |-> 2])), None),
     CallbackOf(TRUE, SignedState(2), None),
     CallbackOf(TRUE, SignedState(1), Some("other.example"))}

\* The state decodes and its signature is the server's for its payload.
Verifies(state) ==
    /\ state.kind = "object"
    /\ _sign_state(AMO_STATE_SECRET, state.p) = state.s

\* The connection after the referer of the request was stored.
Referred(cs, conn, referer) ==
    IF referer = None THEN cs ELSE PutConnection(cs, [conn EXCEPT !.base_domain = referer])

\* global_amocrm_callback: the connections after the request and the answer.
global_amocrm_callback(cs, q, r) ==
    IF ~q.code \/ q.state = NoState
    THEN [connections |-> cs, status |-> "400"]
    ELSE IF ~Verifies(q.state)
    THEN [connections |-> cs, status |-> "400"]
    ELSE LET company_id == q.state.p.cid
             found == _get_connection_or_none(cs, company_id)
         IN IF found = None
            THEN [connections |-> cs, status |-> "400"]
            ELSE LET stored == Referred(cs, found[1], q.referer)
                     conn == _get_connection_or_none(stored, company_id)[1]
                 IN IF conn.base_domain = None
                    THEN [connections |-> stored, status |-> "400"]
                    ELSE IF r = NoAnswer
                    THEN [connections |-> stored, status |-> "500"]
                    ELSE IF r.status_code # 200
                    THEN [connections |-> stored, status |-> "400"]
                    ELSE [connections |-> _save_tokens(stored, conn, r), status |-> "200"]

GlobalAmocrmCallback ==
    \E q \in Callbacks, r \in Answers :
        /\ hook.phase = "idle"
        /\ connections' = global_amocrm_callback(connections, q, r).connections
        /\ last' = [op |-> "global_amocrm_callback", q |-> q, r |-> r, pre |-> connections,
                    status |-> global_amocrm_callback(connections, q, r).status]
        /\ UNCHANGED <<today, profiles, buffs, transactions, inventory, feed_events,
                       challenge_progress, user_maps, streak_days, hook,
                       companies, user_company, challenges, shop_items, posts, likes, clock, foreign_keys, procs, amo>>

InitAmo == Start /\ profiles = {} /\ Site /\ Sqlite /\ user_maps = Mapped

NextAmo ==
    \/ AmocrmConnect
    \/ GlobalAmocrmCallback
    \/ RefreshIfNeeded
    \/ Tick

SpecAmo == InitAmo /\ [][NextAmo]_vars

----------------------------------------------------------------------------
(* C13: global_amocrm_callback is all or nothing. *)

C13_Exchanged ==
    /\ last.q.code
    /\ Verifies(last.q.state)
    /\ ConnectionRows(last.pre, last.q.state.p.cid) # {}
    /\ last.r.status_code = 200

\* C13: a callback stores tokens only on the connection of the company id
\* of a state whose signature verifies, and only after the token exchange
\* answered 200; every other callback is answered 400 or 500 and leaves
\* every stored connection field as it was.
C13_AllOrNothing ==
    last.op = "global_amocrm_callback" =>
        IF C13_Exchanged
        THEN /\ last.status = "200"
             /\ \A c \in connections :
                    c.company_id # last.q.state.p.cid => c \in last.pre
        ELSE /\ last.status \in {"400", "500"}
             /\ connections = last.pre

\* A refused exchange after a request that carried a referer.
C13_RefusedWithReferer ==
    /\ last.op = "global_amocrm_callback"
    /\ last.status = "400"
    /\ last.q.referer # None
    /\ connections # last.pre

----------------------------------------------------------------------------
(* C20: _refresh_if_needed *)

\* The stored connection of the company has a refresh token and its access
\* token has no recorded expiry or expires within the next 60 seconds.
C20_Due ==
    \E c \in ConnectionRows(last.pre, last.company_id) :
        /\ c.refresh_token # None
        /\ \/ c.expires_at \in {None, Some(0)}
           \/ c.expires_at[1] <= last.now + 60

C20_Others == {c \in last.pre : c.company_id # last.company_id}

\* C20: _refresh_if_needed contacts AmoCRM only when the company has a
\* connection with a refresh token whose access token has no recorded
\* expiry or expires within 60 seconds; on 200 the tokens and the expiry are
\* replaced by the new ones, on 400 or 401 the connection row is deleted and
\* None returned, on any other status the connection is unchanged and None
\* returned; without a contact nothing changes.
C20_RefreshIfNeeded ==
    last.op = "_refresh_if_needed" =>
        /\ last.contacted => C20_Due
        /\ ~last.contacted => connections = last.pre
        /\ (last.contacted /\ last.r.status_code = 200) =>
              /\ \E c \in ConnectionRows(last.pre, last.company_id) :
                    connections = C20_Others \cup
                        {[c EXCEPT !.access_token = last.r.access_token,
                                   !.refresh_token = last.r.refresh_token,
                                   !.expires_at = Some(last.now + last.r.expires_in)]}
              /\ last.returned # None
              /\ last.returned[1] \in connections
        /\ (last.contacted /\ last.r.status_code \in {400, 401}) =>
              /\ connections = C20_Others
              /\ last.returned = None
        /\ (last.contacted /\ last.r.status_code \notin {0, 200, 400, 401}) =>
              /\ connections = last.pre
              /\ last.returned = None

\* A token that expires in exactly 60 seconds was renewed.
C20_RenewedAtTheMargin ==
    /\ last.op = "_refresh_if_needed"
    /\ last.contacted
    /\ last.r.status_code = 200
    /\ \E c \in ConnectionRows(last.pre, last.company_id) :
          /\ c.expires_at = Some(last.now + 60)
          /\ c.access_token # last.r.access_token
    /\ connections # last.pre

----------------------------------------------------------------------------
(* feed.py: posts, likes and the feed of a company *)

\* request.args.get('company_id') or current_user.company_id
RequestedCompany(a, arg) == IF arg # None THEN arg ELSE user_company[a]

\* get_feed: the answer and the posts it lists.
get_feed(a, arg) ==
    LET company_id == RequestedCompany(a, arg)
        company == CompanyRows(companies, company_id[1])
    IN IF ~Authenticated(a) THEN [status |-> "unauthorized", posts |-> {}]
       ELSE IF company_id = None THEN [status |-> "200", posts |-> {}]
       ELSE IF /\ Role(a) \in {"PARTNER", "COMPANY_OWNER"}
               /\ \/ company = {}
                  \/ /\ PartnerProfile(a) # None
                     /\ \A c \in company : c.owner_partner_id # PartnerProfile(a)[1]
       THEN [status |-> "403", posts |-> {}]
       ELSE [status |-> "200", posts |-> {q \in posts : q.company_id = company_id[1]}]

\* The requests for the feed: an employee asking for the own company, and
\* the requests that differ from it in the requester or the company.
FeedRequests ==
    {<<1, None>>, <<1, Some(1)>>, <<1, Some(2)>>, <<2, None>>, <<0, Some(1)>>,
     <<3, Some(1)>>, <<3, Some(2)>>, <<3, Some(3)>>, <<3, None>>, <<4, Some(2)>>,
     <<5, Some(1)>>, <<6, Some(1)>>}

GetFeed ==
    \E q \in FeedRequests :
        /\ hook.phase = "idle"
        /\ last' = [op |-> "get_feed", user |-> q[1],
                    company_id |-> RequestedCompany(q[1], q[2]),
                    status |-> get_feed(q[1], q[2]).status,
                    posts |-> get_feed(q[1], q[2]).posts]
        /\ UNCHANGED <<today, profiles, buffs, transactions, inventory, feed_events,
                       challenge_progress, user_maps, streak_days, hook, site>>

\* create_post: the answer and the posts table after the request.
create_post(a, arg, content) ==
    LET company_id == RequestedCompany(a, arg)
        new_post == [id |-> Cardinality(posts) + 1, company_id |-> company_id[1],
                     author_id |-> a]
    IN IF ~Authenticated(a) THEN [status |-> "unauthorized", posts |-> posts]
       ELSE IF Role(a) \notin {"PARTNER", "COMPANY_OWNER"}
       THEN [status |-> "403", posts |-> posts]
       ELSE IF company_id = None THEN [status |-> "400", posts |-> posts]
       ELSE IF content = "" THEN [status |-> "400", posts |-> posts]
       ELSE IF foreign_keys /\ CompanyRows(companies, company_id[1]) = {}
       THEN [status |-> "500", posts |-> posts]
       ELSE [status |-> "200", posts |-> posts \cup {new_post}]

\* The requests to post: the owner of company 1 posting there, and the
\* requests that differ from it in the requester, the company or the content.
PostRequests ==
    {<<3, Some(1), "hi">>, <<3, Some(1), "">>, <<3, None, "hi">>, <<3, Some(2), "hi">>,
     <<3, Some(3), "hi">>, <<0, Some(1), "hi">>, <<1, Some(1), "hi">>, <<1, None, "hi">>,
     <<4, Some(1), "hi">>, <<4, Some(2), "hi">>, <<5, Some(1), "hi">>, <<6, Some(1), "hi">>}

CreatePost ==
    \E q \in PostRequests :
        /\ hook.phase = "idle"
        /\ create_post(q[1], q[2], q[3]).status = "200" => Cardinality(posts) < MaxPosts
        /\ posts' = create_post(q[1], q[2], q[3]).posts
        /\ last' = [op |-> "create_post", user |-> q[1],
                    company_id |-> RequestedCompany(q[1], q[2]), content |-> q[3],
                    pre |-> posts, status |-> create_post(q[1], q[2], q[3]).status]
        /\ UNCHANGED <<today, profiles, buffs, transactions, inventory, feed_events,
                       challenge_progress, user_maps, streak_days, hook,
                       companies, user_company, challenges, shop_items, connections,
                       likes, clock, foreign_keys, procs, amo>>

\* The requester's likes of the post never found.
LikesOf_none(ls, post_id, a) == {k \in DOMAIN ls : FALSE /\ ls[k].post_id = post_id /\ a = a}

\* Like.query.filter_by(post_id=post_id, user_id=current_user.id)
LikesOf(ls, post_id, a) ==
    {k \in DOMAIN ls : ls[k].post_id = post_id /\ ls[k].user_id = a}

\* toggle_like: the answer and the likes table after the request.
toggle_like(ls, a, post_id) ==
    LET found == LikesOf(ls, post_id, a)
        first == CHOOSE k \in found : \A j \in found : k <= j
    IN IF ~Authenticated(a) THEN [status |-> "unauthorized", likes |-> ls]
       ELSE IF found # {} THEN [status |-> "unliked", likes |-> SubSeq(ls, 1, first - 1) \o SubSeq(ls, first + 1, Len(ls))]
       ELSE IF foreign_keys /\ \A q \in posts : q.id # post_id
       THEN [status |-> "500", likes |-> ls]
       ELSE [status |-> "liked", likes |-> Append(ls, [post_id |-> post_id, user_id |-> a])]

\* post_id of the request's path: the first post and one that may not exist.
PostInputs == {1, 2}

ToggleLike ==
    \E a \in {0, 1, 2}, post_id \in PostInputs :
        /\ hook.phase = "idle"
        /\ likes' = toggle_like(likes, a, post_id).likes
        /\ last' = [op |-> "toggle_like", user |-> a, post_id |-> post_id,
                    pre |-> likes, status |-> toggle_like(likes, a, post_id).status]
        /\ UNCHANGED <<today, profiles, buffs, transactions, inventory, feed_events,
                       challenge_progress, user_maps, streak_days, hook,
                       companies, user_company, challenges, shop_items, connections,
                       posts, clock, foreign_keys, procs, amo>>

InitFeed == Start /\ profiles = {} /\ Site /\ Deployment /\ user_maps = Mapped

NextFeed ==
    \/ CreatePost
    \/ ToggleLike
    \/ GetFeed

SpecFeed == InitFeed /\ [][NextFeed]_vars

----------------------------------------------------------------------------
(* C14: toggle_like *)

C14_Liked(ls, post_id, a) == \E k \in DOMAIN ls : ls[k] = [post_id |-> post_id, user_id |-> a]

\* C14: called one after another, toggle_like alternates between liked and
\* unliked for a post and a user: there is never more than one like row
\* for a pair of post and user, the status says whether the row now exists,
\* no other pair's like changes, and two calls in a row restore the set of
\* likes.
C14_ToggleAlternates ==
    /\ \A a \in Accounts, post_id \in PostInputs :
          Cardinality(LikesOf(likes, post_id, a)) <= 1
    /\ last.op = "toggle_like" /\ last.status \in {"liked", "unliked"} =>
          /\ last.status = "liked" <=> C14_Liked(likes, last.post_id, last.user)
          /\ last.status = "liked" <=> ~C14_Liked(last.pre, last.post_id, last.user)
          /\ \A a \in Accounts, post_id \in PostInputs :
                <<post_id, a>> # <<last.post_id, last.user>> =>
                    (C14_Liked(likes, post_id, a) <=> C14_Liked(last.pre, post_id, a))
    /\ \A a \in Accounts \ {0}, post_id \in PostInputs :
          LET once == toggle_like(likes, a, post_id)
              twice == toggle_like(once.likes, a, post_id)
          IN once.status \in {"liked", "unliked"} =>
                /\ twice.status \in {"liked", "unliked"} \ {once.status}
                /\ Range(twice.likes) = Range(likes)

\* A like was taken back while another like stays.
C14_UnlikedOneOfTwo ==
    /\ last.op = "toggle_like"
    /\ last.status = "unliked"
    /\ Len(last.pre) = 2
    /\ Len(likes) = 1

----------------------------------------------------------------------------
(* C15: get_feed *)

C15_Belongs(a, company_id) == user_company[a] = Some(company_id)

C15_Owns(a, company_id) ==
    /\ PartnerProfile(a) # None
    /\ \E c \in CompanyRows(companies, company_id) : c.owner_partner_id = PartnerProfile(a)[1]

\* C15: get_feed lists the posts and events of a company only to a
\* requester who belongs to the company or to the partner who owns it; any
\* other requester is answered 403 or an empty list.
C15_FeedOnlyForMembers ==
    last.op = "get_feed" =>
        \/ last.status \in {"unauthorized", "403"}
        \/ last.posts = {}
        \/ C15_Belongs(last.user, last.company_id[1])
        \/ C15_Owns(last.user, last.company_id[1])

----------------------------------------------------------------------------
(* C16: create_post *)

\* C16: create_post adds a post to a company only when the requester owns
\* the company; a requester whose role is neither PARTNER nor COMPANY_OWNER
\* is answered 403, a request without company id or content 400, and a
\* refused request adds no post.
C16_PostOnlyByOwner ==
    last.op = "create_post" =>
        /\ \A q \in posts \ last.pre : C15_Owns(last.user, q.company_id)
        /\ (Authenticated(last.user) /\ Role(last.user) \notin {"PARTNER", "COMPANY_OWNER"})
              => last.status = "403"
        /\ (Role(last.user) \in {"PARTNER", "COMPANY_OWNER"}
              /\ (last.company_id = None \/ last.content = "")) => last.status = "400"
        /\ last.status # "200" => posts = last.pre

----------------------------------------------------------------------------
(* app.py: the super admin deletes a company *)

\* The tables a deletion touches.
SiteTables ==
    [companies |-> companies, connections |-> connections, user_maps |-> user_maps,
     challenges |-> challenges, challenge_progress |-> challenge_progress,
     user_company |-> user_company, shop_items |-> shop_items, posts |-> posts]

\* db.session.delete(comp) and the commit: the cascades of Company's
\* relationships, and the foreign keys of the rows that stay set to NULL.
DeleteCascade(d, company_id) ==
    LET gone == {c.id : c \in {c \in d.challenges : c.company_id = company_id}}
    IN [d EXCEPT
          !.companies = d.companies \ CompanyRows(d.companies, company_id),
          !.connections = d.connections \ ConnectionRows(d.connections, company_id),
          !.user_maps = {m \in d.user_maps : m.company_id # company_id},
          !.challenges = {c \in d.challenges : c.company_id # company_id},
          !.challenge_progress = {r \in d.challenge_progress : r.challenge_id \notin gone},
          !.user_company = [a \in DOMAIN d.user_company |->
                               IF d.user_company[a] = Some(company_id) THEN None
                               ELSE d.user_company[a]],
          !.shop_items = [i \in DOMAIN d.shop_items |->
                             IF d.shop_items[i].company_id = Some(company_id)
                             THEN [d.shop_items[i] EXCEPT !.company_id = None]
                             ELSE d.shop_items[i]]]

\* The commit of a deletion raises when the database enforces foreign keys
\* and a row that db.session.delete(comp) neither deletes nor detaches
\* references the company: posts, feed events and daily stories have no
\* relationship on Company.
DeleteRaises(company_id) ==
    /\ foreign_keys
    /\ \/ \E q \in posts : q.company_id = company_id
       \/ \E k \in DOMAIN feed_events : feed_events[k].company_id = Some(company_id)

\* delete_company: the answer and the tables after the request.
delete_company(a, company_id) ==
    IF ~Authenticated(a) THEN [status |-> "unauthorized", tables |-> SiteTables]
    ELSE IF Role(a) # "SUPER_ADMIN" THEN [status |-> "403", tables |-> SiteTables]
    ELSE IF CompanyRows(companies, company_id) = {}
    THEN [status |-> "not found", tables |-> SiteTables]
    ELSE IF DeleteRaises(company_id) THEN [status |-> "error", tables |-> SiteTables]
    ELSE [status |-> "deleted", tables |-> DeleteCascade(SiteTables, company_id)]

DeleteCompany ==
    \E a \in Accounts, company_id \in CompanyInputs :
        LET d == delete_company(a, company_id)
        IN /\ hook.phase = "idle"
           /\ companies' = d.tables.companies
           /\ connections' = d.tables.connections
           /\ user_maps' = d.tables.user_maps
           /\ challenges' = d.tables.challenges
           /\ challenge_progress' = d.tables.challenge_progress
           /\ user_company' = d.tables.user_company
           /\ shop_items' = d.tables.shop_items
           /\ last' = [op |-> "delete_company", user |-> a, company_id |-> company_id,
                       pre |-> SiteTables, status |-> d.status]
           /\ UNCHANGED <<today, profiles, buffs, transactions, inventory, feed_events,
                          streak_days, hook, posts, likes, clock, foreign_keys, procs, amo>>

InitAdmin == Start /\ Site /\ Deployment /\ user_maps = Mapped

NextAdmin ==
    \/ CreatePost
    \/ AmocrmConnect
    \/ DeleteCompany

SpecAdmin == InitAdmin /\ [][NextAdmin]_vars

----------------------------------------------------------------------------
(* C17: delete_company *)

\* No row of any table references the company.
C17_Unreferenced(company_id) ==
    /\ CompanyRows(companies, company_id) = {}
    /\ ConnectionRows(connections, company_id) = {}
    /\ \A m \in user_maps : m.company_id # company_id
    /\ \A c \in challenges : c.company_id # company_id
    /\ \A r \in challenge_progress : \E c \in challenges : c.id = r.challenge_id
    /\ \A a \in Accounts : user_company[a] # Some(company_id)
    /\ \A i \in DOMAIN shop_items : shop_items[i].company_id # Some(company_id)
    /\ \A q \in posts : q.company_id # company_id
    /\ \A k \in DOMAIN feed_events : feed_events[k].company_id # Some(company_id)

\* C17: after a deletion of company C that succeeded, C's connection, user
\* maps and challenges with their progress are gone and no user, shop item,
\* post or feed event references C; a deletion that raises is rolled back
\* and deletes nothing; only a SUPER_ADMIN deletes, anyone else gets 403.
C17_NothingReferencesDeleted ==
    last.op = "delete_company" =>
        /\ last.status = "deleted" =>
              /\ Role(last.user) = "SUPER_ADMIN"
              /\ C17_Unreferenced(last.company_id)
        /\ last.status # "deleted" => SiteTables = last.pre
        /\ (Authenticated(last.user) /\ Role(last.user) # "SUPER_ADMIN")
              => last.status = "403"

----------------------------------------------------------------------------
(* Requests served at the same time: each worker has its own session, reads
   the rows it needs when the handler starts and writes at its commit. *)

\* The rows a session added to a table.
Added(before, after) == SubSeq(after, Len(before) + 1, Len(after))

\* UPDATE ... SET of the columns the session changed: the value the session
\* computed is written over whatever the row holds by then.
Updated(row, old, new) ==
    [f \in DOMAIN row |-> IF new[f] # old[f] THEN new[f] ELSE row[f]]

\* The profile rows after the commit of a session that began as s0 and
\* ended as s1.
WrittenProfiles(ps, s0, s1) ==
    {IF ProfileRows(s0.profiles, p.user_id) # {} /\ ProfileRows(s1.profiles, p.user_id) # {}
     THEN Updated(p, ProfileOf(s0.profiles, p.user_id), ProfileOf(s1.profiles, p.user_id))
     ELSE p : p \in ps}
    \cup {n \in s1.profiles : ProfileRows(s0.profiles, n.user_id) = {}}

\* The commit raises: a row it inserts breaks a constraint.
CommitRaises(s0, s1) ==
    \/ FlushFails(s1)
    \/ \E n \in s1.profiles :
          /\ ProfileRows(s0.profiles, n.user_id) = {}
          /\ ProfileRows(profiles, n.user_id) # {}

\* db.session.commit() of a worker's session.
WriteBack(s0, s1) ==
    /\ profiles' = WrittenProfiles(profiles, s0, s1)
    /\ buffs' = buffs \o Added(s0.buffs, s1.buffs)
    /\ transactions' = transactions \o Added(s0.transactions, s1.transactions)
    /\ inventory' = inventory \o Added(s0.inventory, s1.inventory)
    /\ feed_events' = feed_events \o Added(s0.feed_events, s1.feed_events)
    /\ streak_days' = [u \in Users |->
                          IF s1.streak_days[u] # s0.streak_days[u]
                          THEN s1.streak_days[u] ELSE streak_days[u]]
    /\ UNCHANGED challenge_progress

\* The worker ends its request with the commit, or the rollback when the
\* commit raises.
Finish(w) ==
    /\ procs[w].pc \in {"buy_item", "choose_buff"}
    /\ hook.phase = "idle"
    /\ IF CommitRaises(procs[w].s0, procs[w].s1)
       THEN /\ Rollback
            /\ last' = [op |-> procs[w].pc, worker |-> w, user |-> procs[w].user,
                        status |-> 500]
       ELSE /\ WriteBack(procs[w].s0, procs[w].s1)
            /\ last' = [op |-> procs[w].pc, worker |-> w, user |-> procs[w].user,
                        status |-> 200]
    /\ procs' = [procs EXCEPT ![w] = Idle]
    /\ UNCHANGED <<today, user_maps, hook, companies, user_company, challenges,
                   shop_items, connections, posts, likes, clock, foreign_keys, amo>>

\* buy_item up to its commit, run by worker w.
BuyStart(w, u, item_id, prize) ==
    LET g == get_or_create_profile(BeginSession, u)
        item == shop_items[item_id]
        refused(code) == [op |-> "buy_item", worker |-> w, user |-> u, status |-> code]
    IN /\ procs[w].pc = "idle"
       /\ hook.phase = "idle"
       /\ Len(transactions) < MaxShopTxn
       /\ UNCHANGED <<today, profiles, buffs, transactions, inventory, feed_events,
                      challenge_progress, user_maps, streak_days, hook,
                      companies, user_company, challenges, shop_items, connections,
                      posts, likes, clock, foreign_keys, amo>>
       /\ IF item_id = 0
          THEN last' = refused(400) /\ UNCHANGED procs
          ELSE IF item_id \notin ItemIds
          THEN last' = refused(404) /\ UNCHANGED procs
          ELSE IF item.company_id # None /\ item.company_id # UserCompany(u)
          THEN last' = refused(403) /\ UNCHANGED procs
          ELSE IF NotEnoughCoins(g.profile, item)
          THEN last' = refused(400) /\ UNCHANGED procs
          ELSE /\ procs' = [procs EXCEPT ![w] =
                                [pc |-> "buy_item", user |-> u, s0 |-> BeginSession,
                                 s1 |-> Purchase(g.s, u, item, prize)]]
               /\ last' = [op |-> "start", worker |-> w]

BuyItemStart ==
    \E w \in Workers, u \in LoggedIn, item_id \in ItemInputs :
        \E prize \in (IF item_id \in ItemIds /\ shop_items[item_id].type = "MYSTERY_BOX"
                      THEN open_mystery_box(shop_items[item_id]) ELSE {EmptyBox}) :
            BuyStart(w, u, item_id, prize)

\* choose_buff up to its commit, run by worker w.
ChooseStart(w, u, buff_type_str) ==
    LET g == get_or_create_profile(BeginSession, u)
        existing == BuffRows(g.s.buffs, u, today)
        s1 == StreakChecked(g, today)
        s2 == [s1 EXCEPT !.buffs = Append(@,
                  [user_id |-> u, date |-> today, buff_type |-> Upper(buff_type_str)])]
        refused(code) == [op |-> "choose_buff", worker |-> w, user |-> u, status |-> code]
    IN /\ procs[w].pc = "idle"
       /\ hook.phase = "idle"
       /\ UNCHANGED <<today, profiles, buffs, transactions, inventory, feed_events,
                      challenge_progress, user_maps, streak_days, hook,
                      companies, user_company, challenges, shop_items, connections,
                      posts, likes, clock, foreign_keys, amo>>
       /\ IF buff_type_str = "" \/ Upper(buff_type_str) \notin BuffType
          THEN last' = refused(400) /\ UNCHANGED procs
          ELSE IF Len(existing) > 1
          THEN last' = refused(500) /\ UNCHANGED procs
          ELSE IF AlreadyChosen(existing)
          THEN last' = refused(409) /\ UNCHANGED procs
          ELSE /\ procs' = [procs EXCEPT ![w] =
                                [pc |-> "choose_buff", user |-> u, s0 |-> BeginSession,
                                 s1 |-> s2]]
               /\ last' = [op |-> "start", worker |-> w]

ChooseBuffStart ==
    \E w \in Workers, u \in LoggedIn, str \in BuffInputs : ChooseStart(w, u, str)

\* A user the earlier requests left with a profile.
InitRace ==
    /\ Start
    /\ profiles = {VeteranProfile(1)}
    /\ Site
    /\ Sqlite
    /\ user_maps = Mapped

NextRaceShop ==
    \/ BuyItemStart
    \/ \E w \in Workers : Finish(w)

SpecRaceShop == InitRace /\ [][NextRaceShop]_vars

NextRaceBuff ==
    \/ ChooseBuffStart
    \/ \E w \in Workers : Finish(w)

SpecRaceBuff == InitRace /\ [][NextRaceBuff]_vars

----------------------------------------------------------------------------
(* C18: two buy_item requests of one user at the same time *)

RECURSIVE C18_Booked(_)
C18_Booked(ts) == IF ts = <<>> THEN 0 ELSE Head(ts).amount + C18_Booked(Tail(ts))

\* C18: whatever the interleaving of the buy_item requests of a user, the
\* balance is never negative, and once the requests are over it is the
\* initial balance minus the prices of the purchases that succeeded (plus
\* the coins they won): no deduction is lost.
C18_NoLostDeduction ==
    /\ \A p \in profiles : p.coins >= 0
    /\ (\A w \in Workers : procs[w].pc = "idle") =>
          Coins(profiles, 1) = VeteranProfile(1).coins + C18_Booked(transactions)

----------------------------------------------------------------------------
(* C19: choose_buff requests of one user at the same time *)

\* C19: whatever the interleaving of the choose_buff requests of a user on
\* one day, at most one DailyBuff row is stored for the user and the day,
\* so that a later scalar_one_or_none lookup finds no row or one.
C19_OneRowPerDay ==
    \A u \in Users, d \in 0 .. MaxDay : Len(BuffRows(buffs, u, d)) <= 1

----------------------------------------------------------------------------
(* _refresh_if_needed served by several workers at the same time *)

\* AmoCRM's answer to a refresh request: a refresh token is accepted once,
\* the new pair replaces it; any other token is refused with 400.
AmoAnswer(company_id, refresh_token) ==
    IF refresh_token # None /\ amo[company_id].valid = refresh_token
    THEN TokenAnswer(amo[company_id].issued + 1, 120)
    ELSE Refusal(400)

\* A connection as the callback stored it, with a token about to expire.
Connected(company_id) ==
    [company_id |-> company_id, client_id |-> Some("id"), client_secret |-> Some("secret"),
     base_domain |-> Some("crm.example"), access_token |-> Some(1),
     refresh_token |-> Some(11), expires_at |-> Some(RefreshMargin)]

\* lines 80-86: the worker loads the connection and decides to refresh.
RefreshRead(w, company_id) ==
    LET found == _get_connection_or_none(connections, company_id)
        needed == found # None /\ found[1].refresh_token # None /\ ~Fresh(found[1])
    IN /\ procs[w].pc = "idle"
       /\ hook.phase = "idle"
       /\ procs' = IF needed
                   THEN [procs EXCEPT ![w] = [pc |-> "refresh_read",
                                              company_id |-> company_id, conn |-> found[1]]]
                   ELSE procs
       /\ last' = [op |-> "refresh_read", worker |-> w, company_id |-> company_id,
                   contacted |-> needed]
       /\ UNCHANGED <<today, profiles, buffs, transactions, inventory, feed_events,
                      challenge_progress, user_maps, streak_days, hook,
                      companies, user_company, challenges, shop_items, connections,
                      posts, likes, clock, foreign_keys, amo>>

\* lines 88-97: the request to AmoCRM and its answer.
RefreshPost(w) ==
    LET company_id == procs[w].company_id
        r == AmoAnswer(company_id, procs[w].conn.refresh_token)
    IN /\ procs[w].pc = "refresh_read"
       /\ hook.phase = "idle"
       /\ amo' = IF r.status_code = 200
                 THEN [amo EXCEPT ![company_id] =
                          [valid |-> r.refresh_token, issued |-> @.issued + 1]]
                 ELSE amo
       /\ procs' = [procs EXCEPT ![w] = [pc |-> "refresh_answered",
                                         company_id |-> company_id,
                                         conn |-> procs[w].conn, r |-> r]]
       /\ last' = [op |-> "refresh_post", worker |-> w, company_id |-> company_id,
                   status_code |-> r.status_code]
       /\ UNCHANGED <<today, profiles, buffs, transactions, inventory, feed_events,
                      challenge_progress, user_maps, streak_days, hook,
                      companies, user_company, challenges, shop_items, connections,
                      posts, likes, clock, foreign_keys>>

\* lines 98-105: the answer is applied.  _save_tokens updates the worker's
\* row, and its commit raises when the row is gone; _clear_tokens looks the
\* row up again and deletes it.
RefreshApplied(cs, company_id, r) ==
    IF r.status_code = 200
    THEN IF ConnectionRows(cs, company_id) = {}
         THEN [connections |-> cs, returned |-> "500"]
         ELSE [connections |-> _save_tokens(cs, _get_connection_or_none(cs, company_id)[1], r),
               returned |-> "conn"]
    ELSE IF r.status_code \in {400, 401}
    THEN [connections |-> _clear_tokens(cs, company_id), returned |-> "None"]
    ELSE [connections |-> cs, returned |-> "None"]

RefreshFinish(w) ==
    LET company_id == procs[w].company_id
        done == RefreshApplied(connections, company_id, procs[w].r)
    IN /\ procs[w].pc = "refresh_answered"
       /\ hook.phase = "idle"
       /\ connections' = done.connections
       /\ procs' = [procs EXCEPT ![w] = Idle]
       /\ last' = [op |-> "_refresh_if_needed", worker |-> w, company_id |-> company_id,
                   r |-> procs[w].r, pre |-> connections, returned |-> done.returned]
       /\ UNCHANGED <<today, profiles, buffs, transactions, inventory, feed_events,
                      challenge_progress, user_maps, streak_days, hook,
                      companies, user_company, challenges, shop_items,
                      posts, likes, clock, foreign_keys, amo>>

\* Both companies are connected and their tokens are about to expire.
InitRaceAmo ==
    /\ Start
    /\ profiles = {}
    /\ user_maps = Mapped
    /\ Sqlite
    /\ companies = {[id |-> 1, owner_partner_id |-> 1], [id |-> 2, owner_partner_id |-> 2]}
    /\ user_company = [a \in Accounts |-> IF a \in {1, 2} THEN Some(a) ELSE None]
    /\ challenges = Challenges
    /\ shop_items = Items
    /\ connections = {Connected(c) : c \in CompanyIds}
    /\ posts = {}
    /\ likes = <<>>
    /\ clock = 0
    /\ procs = [w \in Workers |-> Idle]
    /\ amo = [c \in CompanyIds |-> [valid |-> Some(11), issued |-> 1]]

NextRaceAmo ==
    \/ \E w \in Workers, company_id \in CompanyIds : RefreshRead(w, company_id)
    \/ \E w \in Workers : RefreshPost(w)
    \/ \E w \in Workers : RefreshFinish(w)
    \/ Tick

SpecRaceAmo == InitRaceAmo /\ [][NextRaceAmo]_vars

----------------------------------------------------------------------------
(* C21: concurrent refreshes *)

\* C21: when no refresh of a company is under way, its connection holds
\* the refresh token AmoCRM issued last: a refresh that succeeded is not
\* undone by another request, and the company stays connected.
C21_RefreshKept ==
    \A c \in CompanyIds :
        (\A w \in Workers : procs[w].pc # "idle" => procs[w].company_id # c) =>
            \E conn \in ConnectionRows(connections, c) :
                conn.refresh_token = amo[c].valid

----------------------------------------------------------------------------
(* amocrm_integration.py: the paginated readers *)

\* page, limit = 1, 250
limit == 250

\* An item of a page: a user or a lead as AmoCRM sends it.
Item(id, name) == [id |-> id, name |-> name]

\* The pages AmoCRM may answer to the request for page p: a full page, a
\* full page that repeats the first item of the first page under another
\* name, a full page whose first item has no id, short pages, an empty
\* page, and an answer that is not 200.
FullPage(p) == [k \in 1 .. limit |-> Item(Some((p - 1) * limit + k), "name")]

PageAnswer(items) == [status_code |-> 200, items |-> items]

PageAnswers(p) ==
    {PageAnswer(FullPage(p)),
     PageAnswer([FullPage(p) EXCEPT ![1] = Item(Some(1), "renamed")]),
     PageAnswer([FullPage(p) EXCEPT ![1] = Item(None, "name")]),
     PageAnswer(<<Item(Some(p * limit), "name"), Item(Some(1), "renamed")>>),
     PageAnswer(<<Item(None, "name")>>),
     PageAnswer(<<>>),
     [status_code |-> 500, items |-> <<>>]}

\* A page that ends the reading never recognised.
LastPage_never(items) == FALSE /\ items = items

\* if len(users) < limit: break
LastPage(items) == Len(items) < limit

\* The body of the loop of _fetch_users_map over one page: out[int(uid)] is
\* set for every user that has an id; a dict keeps the place of a key's
\* first insertion and the value of its last.
UsersAdded(out, items) ==
    LET named(id) == items[CHOOSE k \in DOMAIN items :
                              /\ items[k].id = id
                              /\ \A j \in DOMAIN items : items[j].id = id => j <= k].name
        inPage(id) == \E k \in DOMAIN items : items[k].id = id
        known(id) == \E k \in DOMAIN out : out[k].id = id
        first(k) == /\ items[k].id # None
                    /\ ~known(items[k].id)
                    /\ \A j \in 1 .. k - 1 : items[j].id # items[k].id
        marked == [k \in DOMAIN items |-> [k |-> k, item |-> items[k]]]
        isFirst(m) == first(m.k)
        new == SelectSeq(marked, isFirst)
    IN [k \in DOMAIN out |-> IF inPage(out[k].id) THEN Item(out[k].id, named(out[k].id))
                              ELSE out[k]]
       \o [k \in DOMAIN new |-> Item(new[k].item.id, named(new[k].item.id))]

\* One turn of the loop of a reader: the page is requested and the answer
\* handled.
ReadPage(kind, st, answer) ==
    LET fetched == Append(st.fetched, [page |-> st.page, answer |-> answer])
        stop(out) == [st EXCEPT !.fetched = fetched, !.out = out, !.pc = "done"]
        more(out) == [st EXCEPT !.fetched = fetched, !.out = out, !.page = @ + 1]
    IN IF answer.status_code # 200 THEN stop(st.out)
       ELSE IF kind = "_fetch_users_map"
       THEN IF LastPage(answer.items) THEN stop(UsersAdded(st.out, answer.items))
            ELSE more(UsersAdded(st.out, answer.items))
       ELSE IF answer.items = <<>> THEN stop(st.out)
       ELSE IF LastPage(answer.items) THEN stop(st.out \o answer.items)
       ELSE more(st.out \o answer.items)

\* A worker calls a reader.
ReaderStart ==
    \E w \in Workers,
       kind \in {"_fetch_users_map", "_iter_closed_leads", "_iter_created_leads"} :
        /\ \A v \in Workers : procs[v].pc = "idle"
        /\ hook.phase = "idle"
        /\ procs' = [procs EXCEPT ![w] = [pc |-> "reading", kind |-> kind, page |-> 1,
                                          out |-> <<>>, fetched |-> <<>>]]
        /\ last' = [op |-> "start", worker |-> w]
        /\ UNCHANGED <<today, profiles, buffs, transactions, inventory, feed_events,
                       challenge_progress, user_maps, streak_days, hook,
                       companies, user_company, challenges, shop_items, connections,
                       posts, likes, clock, foreign_keys, amo>>

ReaderNext ==
    \E w \in Workers :
        /\ procs[w].pc = "reading"
        /\ procs[w].page <= MaxPages
        /\ hook.phase = "idle"
        /\ \E answer \in PageAnswers(procs[w].page) :
              procs' = [procs EXCEPT ![w] = ReadPage(procs[w].kind, procs[w], answer)]
        /\ last' = [op |-> "page", worker |-> w]
        /\ UNCHANGED <<today, profiles, buffs, transactions, inventory, feed_events,
                       challenge_progress, user_maps, streak_days, hook,
                       companies, user_company, challenges, shop_items, connections,
                       posts, likes, clock, foreign_keys, amo>>

InitReaders == Start /\ profiles = {} /\ Site /\ Sqlite /\ user_maps = Mapped

NextReaders ==
    \/ ReaderStart
    \/ ReaderNext

SpecReaders == InitReaders /\ [][NextReaders]_vars

----------------------------------------------------------------------------
(* C22: the paginated readers *)

RECURSIVE C22_Items(_)
\* The items of the pages answered with 200, in the order fetched.
C22_Items(fetched) ==
    IF fetched = <<>> THEN <<>>
    ELSE C22_Items(SubSeq(fetched, 1, Len(fetched) - 1)) \o
         (IF fetched[Len(fetched)].answer.status_code = 200
          THEN fetched[Len(fetched)].answer.items ELSE <<>>)

\* The answer ends the reading: not 200, or fewer than 250 items.
C22_Ends(answer) == answer.status_code # 200 \/ Len(answer.items) < limit

\* Pages 1, 2, 3, ... are requested in order, and the reading has stopped
\* exactly when the last answer ends it.
C22_PagesInOrder(st) ==
    /\ \A k \in DOMAIN st.fetched : st.fetched[k].page = k
    /\ \A k \in 1 .. Len(st.fetched) - 1 : ~C22_Ends(st.fetched[k].answer)
    /\ st.pc = "done" <=>
          (st.fetched # <<>> /\ C22_Ends(st.fetched[Len(st.fetched)].answer))
    /\ st.pc = "reading" => st.page = Len(st.fetched) + 1

\* The users of the items: one entry for each id, at the place of the id's
\* first item, with the name of its last item; items without id left out.
C22_Users(items) ==
    LET marked == [k \in DOMAIN items |-> [k |-> k, item |-> items[k]]]
        isFirst(m) == /\ m.item.id # None
                      /\ \A j \in 1 .. m.k - 1 : items[j].id # m.item.id
        isLast(m) == \A j \in m.k + 1 .. Len(items) : items[j].id # m.item.id
        firsts == SelectSeq(marked, isFirst)
        lasts == SelectSeq(marked, isLast)
        nameOf(id) == lasts[CHOOSE k \in DOMAIN lasts : lasts[k].item.id = id].item.name
    IN [k \in DOMAIN firsts |-> Item(firsts[k].item.id, nameOf(firsts[k].item.id))]

\* C22 as stated: every reader, _fetch_users_map included, has delivered
\* every item of every page fetched, each once and in page order.
C22_EveryItemDelivered ==
    \A w \in Workers :
        procs[w].pc \in {"reading", "done"} =>
            /\ C22_PagesInOrder(procs[w])
            /\ procs[w].out = C22_Items(procs[w].fetched)

\* C22, amended: the readers request pages 1, 2, 3, ... and stop at the
\* first answer that is not 200 or has fewer than 250 items, keeping what
\* they have; the two lead readers have delivered every item of every page
\* fetched, once and in page order; _fetch_users_map has delivered one
\* entry for each id among the items that have one, at the place of the
\* id's first item and with the data of its last.
C22_ReadersDeliver ==
    \A w \in Workers :
        procs[w].pc \in {"reading", "done"} =>
            /\ C22_PagesInOrder(procs[w])
            /\ procs[w].kind # "_fetch_users_map" =>
                  procs[w].out = C22_Items(procs[w].fetched)
            /\ procs[w].kind = "_fetch_users_map" =>
                  procs[w].out = C22_Users(C22_Items(procs[w].fetched))

\* A reading that a refused second page ended with the first page kept.
C22_PartialResult ==
    \E w \in Workers :
        /\ procs[w].pc = "done"
        /\ Len(procs[w].fetched) = 2
        /\ procs[w].fetched[2].answer.status_code # 200
        /\ Len(procs[w].out) >= limit - 1

----------------------------------------------------------------------------
(* C23: each webhook event is applied as a whole or not at all *)

\* The event left the session, which the commit at the end of
\* handle_amo_events stores, as it found it.
C23_NoEffect == TablesOf(hook.s) = TablesOf(last.pre)

\* The event was rewarded: its Transaction is in the session and the
\* user's activity of the day is recorded.
C23_AllEffects ==
    /\ last.outcome = "rewarded"
    /\ Len(hook.s.transactions) = Len(last.pre.transactions) + 1
    /\ \A u \in MappedUsers(last.ev) :
          ProfileOf(hook.s.profiles, u).last_activity_date = Some(last.day)

\* C23: after each lead or call event of a webhook request whose commit
\* will go through, the session holds all effects of the event or none of
\* them, also when the event raised into the per-event except clause.
C23_EventsAtomic ==
    (last.op \in {"lead", "call"} /\ ~hook.s.failed) =>
        (C23_AllEffects \/ C23_NoEffect)

============================================================================
